---- MODULE Spec2Model ----
(***************************************************************************)
(* Model of backend/src/index.ts: an Express application with three routes *)
(* (POST /users/new, POST /users/edit/:userId, GET /users) over one SQLite *)
(* table `users` accessed through drizzle.                                 *)
(*                                                                         *)
(* JavaScript runs each piece of code between two awaits atomically, so an *)
(* action is either the arrival of a request (everything Express runs      *)
(* synchronously for it, up to the first await) or the resumption of an    *)
(* async function after its awaited query.                                 *)
(*                                                                         *)
(* Two facts of the platform decide most of what follows:                  *)
(*  - an `async function` never throws synchronously: whatever it throws   *)
(*    becomes the rejection of the promise it returns;                     *)
(*  - Express 4 ignores the promise a handler returns, Express 5 forwards  *)
(*    its rejection to the error middleware. The repository's source does  *)
(*    not fix the version, so it is a choice made once, in Init.           *)
(* A rejection nobody handles is left recorded in `promise`; what Node     *)
(* does with it (a warning, or ending the process) only removes steps and  *)
(* is not modelled.                                                        *)
(***************************************************************************)
EXTENDS Integers, Sequences, FiniteSets, TLC

\* ------------------------------------------------------------- bounds
\* Number of requests in one behaviour.
MaxReq == 2
\* Largest number of rows the table holds when the process starts.
MaxRows == 2

Req == 1..MaxReq

\* ------------------------------------------------------------- values
\* A JSON field or query parameter that is not there (JavaScript undefined).
Absent == "<undefined>"
\* An SQL NULL.
Null == "<null>"

Emails == {"a@x.com", "b@x.com"}
Usernames == {"a", "b"}
\* Path parameters :userId, after the coercion +userId.
UserIds == {1, 999}

Fields == {"email", "username", "firstName", "lastName", "password"}

\* Boolean(v) for the strings and undefined the model uses.
Truthy(v) == v \notin {Absent, ""}

ValidBodies ==
  { [email |-> e, username |-> u, firstName |-> "A", lastName |-> "B", password |-> "p"] :
      e \in Emails, u \in Usernames }

\* Bodies with exactly one of the five fields empty ("") or absent.
BaseBody ==
  [email |-> "a@x.com", username |-> "a", firstName |-> "A", lastName |-> "B",
   password |-> "p"]
InvalidBodies ==
  { [BaseBody EXCEPT ![f] = ""] : f \in Fields } \cup
  { [BaseBody EXCEPT ![f] = Absent] : f \in {"email", "password"} }

Bodies == ValidBodies \cup InvalidBodies
NoBody == [email |-> Absent, username |-> Absent, firstName |-> Absent,
           lastName |-> Absent, password |-> Absent]

\* Query strings of GET /users: ?email=<string>, or no email parameter.
Queries == Emails \cup {"", Absent}

\* ------------------------------------------------------------- ApiError
ApiError(statusCode, message) ==
  [class |-> "ApiError", statusCode |-> statusCode, message |-> message]

usernameAlreadyTaken == ApiError(409, "UsernameAlreadyTaken")
emailAlreadyInUse == ApiError(409, "EmailAlreadyInUse")
validationError == ApiError(400, "ValidationError")
serverError == ApiError(500, "ServerError")
userNotFound == ApiError(404, "UserNotFound")

\* An error that is not an ApiError: what the database driver throws when a
\* constraint of the table is violated.
SqliteError == [class |-> "SqliteError", statusCode |-> 0, message |-> "SQLITE_CONSTRAINT"]
NoError == [class |-> "", statusCode |-> 0, message |-> ""]

\* ------------------------------------------------------------- responses
\* res.success(data): res.send with Express's default status.
resSuccess(data) == [status |-> 200, body |-> [success |-> TRUE, data |-> data]]
\* res.error(error): res.status(error.statusCode).send(...).
resError(error) ==
  [status |-> error.statusCode, body |-> [success |-> FALSE, error |-> error.message]]

\* The error-handling middleware registered last.
errorMiddleware(err) ==
  IF err.class = "ApiError" THEN resError(err) ELSE resError(serverError)

\* ------------------------------------------------------------- promises
Pending == [state |-> "pending", reason |-> NoError]
Fulfilled == [state |-> "fulfilled", reason |-> NoError]
Rejected(err) == [state |-> "rejected", reason |-> err]
NoPromise == [state |-> "none", reason |-> NoError]

VARIABLES
  users,               \* the rows of table `users`
  forwardsRejections,  \* TRUE: Express 5 (a handler's rejected promise goes to
                       \* the error middleware); FALSE: Express 4 (it is ignored)
  route,               \* route[r]: the route request r matched, "none" before it arrives
  body,                \* body[r]: req.body
  userId,              \* userId[r]: +req.params.userId
  query,               \* query[r]: req.query.email
  promise,             \* promise[r]: the promise of the async function run for r
                       \* (assertUserIsValid for the POST routes, the handler for GET)
  nextCalled,          \* nextCalled[r]: userValidationMiddleware called next for r
  responses,           \* responses[r]: the responses sent for r, in order
  arrival              \* arrival[r]: the table as it was when r arrived (history)

vars == <<users, forwardsRejections, route, body, userId, query, promise, nextCalled,
          responses, arrival>>

\* ------------------------------------------------------------- the table
\* The columns' constraints: id is the primary key, email and username are
\* unique and not null, password is not null.
UniqueEmail(rows) == \A x, y \in rows : x.email = y.email => x = y
UniqueUsername(rows) == \A x, y \in rows : x.username = y.username => x = y
\* The schema with email declared text('email').notNull(), without .unique().
SchemaOkEmailNotUnique(rows) ==
  /\ \A x, y \in rows : x.id = y.id => x = y
  /\ UniqueUsername(rows)
  /\ \A x \in rows : x.email # Null /\ x.username # Null /\ x.password # Null

SchemaOk(rows) ==
  /\ \A x, y \in rows : x.id = y.id => x = y
  /\ UniqueEmail(rows)
  /\ UniqueUsername(rows)
  /\ \A x \in rows : x.email # Null /\ x.username # Null /\ x.password # Null

Row(i, e, u) ==
  [id |-> i, email |-> e, username |-> u, firstName |-> "F", lastName |-> "L",
   password |-> "secret"]

\* The tables the process can find at start: the database file outlives the
\* process, and SQLite admits only contents that satisfy the schema. Ids are
\* taken as 1..n, the ids AUTOINCREMENT gives to n inserts, and the first row
\* is fixed, which loses nothing up to the renaming of emails and usernames.
CandidateRows ==
  {Row(1, "a@x.com", "a")} \cup
  { Row(i, e, u) : i \in 2..MaxRows, e \in Emails, u \in Usernames }

Tables ==
  { rows \in SUBSET CandidateRows :
      /\ SchemaOk(rows)
      /\ \A x \in rows : \A j \in 1..x.id : \E y \in rows : y.id = j }

\* ------------------------------------------------------------- assertUserIsValid
\* The synchronous part, up to the await: the five fields must be truthy.
AllFieldsTruthy(user) == \A f \in Fields : Truthy(user[f])

\* select().from(users).where(or(eq(email), eq(username))): the matching rows.
\* The query has no ORDER BY, so any matching row may come first.
SelectByEmailOrUsername(rows, user) ==
  { x \in rows : x.email = user.email \/ x.username = user.username }

\* What the promise settles to when `candidate` is the first row returned.
CheckCandidate(candidate, user) ==
  IF candidate.email = user.email THEN Rejected(emailAlreadyInUse)
  ELSE IF candidate.username = user.username THEN Rejected(usernameAlreadyTaken)
  ELSE Fulfilled

\* The outcomes of the part after the await.
ValidationOutcomes(rows, user) ==
  IF SelectByEmailOrUsername(rows, user) = {} THEN {Fulfilled}
  ELSE { CheckCandidate(c, user) : c \in SelectByEmailOrUsername(rows, user) }

\* The call assertUserIsValid(req.body) as the middleware sees it: an async
\* function returns a promise and never throws.
assertUserIsValid(user) ==
  [threw |-> FALSE,
   promise |-> IF AllFieldsTruthy(user) THEN Pending ELSE Rejected(validationError)]

\* ------------------------------------------------------------- store writes
\* undefined is sent to SQLite as NULL.
ToSql(v) == IF v = Absent THEN Null ELSE v

\* The id AUTOINCREMENT assigns.
NextId(rows) == IF rows = {} THEN 1 ELSE 1 + CHOOSE m \in {x.id : x \in rows} :
                                               \A x \in rows : x.id <= m

\* .returning({email, username, firstName, lastName})
Projection(row) ==
  [email |-> row.email, username |-> row.username, firstName |-> row.firstName,
   lastName |-> row.lastName]

ValuesOf(i, b) ==
  [id |-> i, email |-> ToSql(b.email), username |-> ToSql(b.username),
   firstName |-> ToSql(b.firstName), lastName |-> ToSql(b.lastName),
   password |-> ToSql(b.password)]

\* db.insert(users).values(b).returning(...): the new table and the rows
\* returned, or the driver's error when a constraint rejects the row.
InsertUser(rows, b) ==
  LET new == ValuesOf(NextId(rows), b) IN
  IF SchemaOk(rows \cup {new})
    THEN [rows |-> rows \cup {new}, returned |-> {Projection(new)}, error |-> NoError]
    ELSE [rows |-> rows, returned |-> {}, error |-> SqliteError]

\* db.update(users).set(b).where(eq(users.id, id)).returning(...)
UpdateUser(rows, id, b) ==
  LET old == {x \in rows : x.id = id}
      new == {ValuesOf(x.id, b) : x \in old} IN
  IF SchemaOk((rows \ old) \cup new)
    THEN [rows |-> (rows \ old) \cup new, returned |-> {Projection(x) : x \in new},
          error |-> NoError]
    ELSE [rows |-> rows, returned |-> {}, error |-> SqliteError]

\* ------------------------------------------------------------- Express
\* What Express sends when the promise returned by an async route handler is
\* rejected with `err`: Express 5 passes err to the error middleware, Express 4
\* never looks at the promise.
OnHandlerRejection(err) ==
  IF forwardsRejections THEN <<errorMiddleware(err)>> ELSE <<>>

Init ==
  /\ users \in Tables
  /\ forwardsRejections \in BOOLEAN
  /\ route = [r \in Req |-> "none"]
  /\ body = [r \in Req |-> NoBody]
  /\ userId = [r \in Req |-> 0]
  /\ query = [r \in Req |-> Absent]
  /\ promise = [r \in Req |-> NoPromise]
  /\ nextCalled = [r \in Req |-> FALSE]
  /\ responses = [r \in Req |-> <<>>]
  /\ arrival = [r \in Req |-> {}]

\* Requests are numbered in the order they arrive.
IsNextRequest(r) == route[r] = "none" /\ \A q \in Req : q < r => route[q] # "none"

\* userValidationMiddleware: try { assertUserIsValid(req.body) } catch (error)
\* { next(error) }. The call is not awaited; next is called in the catch
\* block only, so only when the call throws.
userValidationMiddleware(r, b) ==
  LET call == assertUserIsValid(b) IN
  /\ promise' = [promise EXCEPT ![r] = call.promise]
  /\ nextCalled' = [nextCalled EXCEPT ![r] = call.threw]

\* A POST /users/new request arrives: cors, express.json and
\* responseMiddleware pass it on, userValidationMiddleware runs.
PostUsersNew(r, b) ==
  /\ IsNextRequest(r)
  /\ route' = [route EXCEPT ![r] = "POST /users/new"]
  /\ body' = [body EXCEPT ![r] = b]
  /\ arrival' = [arrival EXCEPT ![r] = users]
  /\ userValidationMiddleware(r, b)
  /\ UNCHANGED <<users, forwardsRejections, userId, query, responses>>

\* A POST /users/edit/:userId request arrives.
PostUsersEdit(r, id, b) ==
  /\ IsNextRequest(r)
  /\ route' = [route EXCEPT ![r] = "POST /users/edit"]
  /\ body' = [body EXCEPT ![r] = b]
  /\ userId' = [userId EXCEPT ![r] = id]
  /\ arrival' = [arrival EXCEPT ![r] = users]
  /\ userValidationMiddleware(r, b)
  /\ UNCHANGED <<users, forwardsRejections, query, responses>>

\* assertUserIsValid resumes after its awaited select and settles its promise.
\* Nothing is attached to that promise: its outcome reaches nobody.
AssertUserIsValidResume(r) ==
  /\ route[r] \in {"POST /users/new", "POST /users/edit"}
  /\ promise[r] = Pending
  /\ \E outcome \in ValidationOutcomes(users, body[r]) :
       promise' = [promise EXCEPT ![r] = outcome]
  /\ UNCHANGED <<users, forwardsRejections, route, body, userId, query, nextCalled,
                 responses, arrival>>

\* A GET /users request arrives and the handler runs up to its await.
GetUsers(r, email) ==
  /\ IsNextRequest(r)
  /\ route' = [route EXCEPT ![r] = "GET /users"]
  /\ query' = [query EXCEPT ![r] = email]
  /\ arrival' = [arrival EXCEPT ![r] = users]
  /\ IF ~Truthy(email)
       THEN /\ promise' = [promise EXCEPT ![r] = Rejected(validationError)]
            /\ responses' = [responses EXCEPT ![r] = OnHandlerRejection(validationError)]
       ELSE /\ promise' = [promise EXCEPT ![r] = Pending]
            /\ UNCHANGED responses
  /\ UNCHANGED <<users, forwardsRejections, body, userId, nextCalled>>

\* select().from(users).where(eq(users.email, String(email)))
SelectByEmail(rows, email) == { x \in rows : x.email = email }

\* The GET handler resumes after its awaited select.
GetUsersResume(r) ==
  /\ route[r] = "GET /users"
  /\ promise[r] = Pending
  /\ IF SelectByEmail(users, query[r]) = {}
       THEN /\ promise' = [promise EXCEPT ![r] = Rejected(userNotFound)]
            /\ responses' = [responses EXCEPT ![r] = OnHandlerRejection(userNotFound)]
       ELSE \E user \in SelectByEmail(users, query[r]) :
            /\ promise' = [promise EXCEPT ![r] = Fulfilled]
            /\ responses' = [responses EXCEPT ![r] = <<resSuccess(user)>>]
  /\ UNCHANGED <<users, forwardsRejections, route, body, userId, query, nextCalled,
                 arrival>>

\* The handlers of the two POST routes. Express runs a route's next handler
\* when the one before it calls next(); they are written down here as the
\* source has them, and are no part of Next: see NextNeverCalled.
PostUsersNewHandler(r) ==
  /\ route[r] = "POST /users/new"
  /\ nextCalled[r]
  /\ responses[r] = <<>>
  /\ LET ins == InsertUser(users, body[r]) IN
     /\ users' = ins.rows
     /\ responses' = [responses EXCEPT ![r] =
          IF ins.error # NoError THEN OnHandlerRejection(ins.error)
          ELSE IF ins.returned = {} THEN OnHandlerRejection(userNotFound)
          ELSE <<resSuccess(CHOOSE x \in ins.returned : TRUE)>>]
  /\ UNCHANGED <<forwardsRejections, route, body, userId, query, promise, nextCalled,
                 arrival>>

PostUsersEditHandler(r) ==
  /\ route[r] = "POST /users/edit"
  /\ nextCalled[r]
  /\ responses[r] = <<>>
  /\ LET upd == UpdateUser(users, userId[r], body[r]) IN
     /\ users' = upd.rows
     /\ responses' = [responses EXCEPT ![r] =
          IF upd.error # NoError THEN OnHandlerRejection(upd.error)
          ELSE IF upd.returned = {} THEN OnHandlerRejection(userNotFound)
          ELSE <<resSuccess(CHOOSE x \in upd.returned : TRUE)>>]
  /\ UNCHANGED <<forwardsRejections, route, body, userId, query, promise, nextCalled,
                 arrival>>

Arrive(r) ==
  \/ \E b \in Bodies : PostUsersNew(r, b)
  \/ \E b \in Bodies, id \in UserIds : PostUsersEdit(r, id, b)
  \/ \E email \in Queries : GetUsers(r, email)

Next ==
  \E r \in Req :
    \/ Arrive(r)
    \/ AssertUserIsValidResume(r)
    \/ GetUsersResume(r)

Spec == Init /\ [][Next]_vars

\* The event loop runs every continuation whose awaited query has completed.
FairSpec ==
  /\ Spec
  /\ \A r \in Req : WF_vars(AssertUserIsValidResume(r))
  /\ \A r \in Req : WF_vars(GetUsersResume(r))

\* The shape of the state.
TypeOK ==
  /\ SchemaOk(users)
  /\ forwardsRejections \in BOOLEAN
  /\ \A r \in Req :
       /\ route[r] \in {"none", "POST /users/new", "POST /users/edit", "GET /users"}
       /\ body[r] \in Bodies \cup {NoBody}
       /\ userId[r] \in UserIds \cup {0}
       /\ query[r] \in Queries
       /\ promise[r].state \in {"none", "pending", "fulfilled", "rejected"}
       /\ nextCalled[r] \in BOOLEAN
       /\ Len(responses[r]) <= 1
       /\ SchemaOk(arrival[r])

\* userValidationMiddleware never calls next, so neither POST handler runs.
NextNeverCalled ==
  \A r \in Req : ~nextCalled[r] /\ ~ENABLED PostUsersNewHandler(r)
                 /\ ~ENABLED PostUsersEditHandler(r)

\* ------------------------------------------------------------- properties
IsCreate(r) == route[r] = "POST /users/new"
IsUpdate(r) == route[r] = "POST /users/edit"
IsLookup(r) == route[r] = "GET /users"

\* Nothing is left to run for request r: the async function started for it
\* has settled, and no action of Next is enabled for r any more.
Settled(r) == promise[r].state \in {"fulfilled", "rejected"}

EmailHeld(rows, e) == \E x \in rows : x.email = e
UsernameHeld(rows, u) == \E x \in rows : x.username = u

\* Request r has been answered with exactly this one response.
AnsweredWith(r, response) == responses[r] = <<response>>

\* The error object and status the error table gives to an error kind.
ErrorResponse(status, kind) ==
  [status |-> status, body |-> [success |-> FALSE, error |-> kind]]

\* The row of `rows` that holds the five field values of body b.
RowsHolding(rows, b) ==
  { x \in rows : /\ x.email = b.email /\ x.username = b.username
                 /\ x.firstName = b.firstName /\ x.lastName = b.lastName
                 /\ x.password = b.password }

\* C1: in every reachable state no two distinct rows of the table share an
\* email and no two distinct rows share a username.
C1_UniqueEmailAndUsername ==
  \A x, y \in users : x # y => x.email # y.email /\ x.username # y.username

\* C1's case: two Create requests with the same email have both passed the
\* uniqueness check, over a table that holds a row.
C1_Witness ==
  \E r1, r2 \in Req :
    /\ r1 # r2 /\ IsCreate(r1) /\ IsCreate(r2)
    /\ body[r1].email = body[r2].email
    /\ promise[r1] = Fulfilled /\ promise[r2] = Fulfilled
    /\ users # {}

\* C2: a Create request with five non-empty fields whose email and username
\* no row holds eventually completes with a success response carrying the
\* projection without password, and exactly one row with its values is inserted.
C2_CreateSucceeds ==
  \A r \in Req :
    (/\ IsCreate(r) /\ AllFieldsTruthy(body[r])
     /\ ~EmailHeld(arrival[r], body[r].email)
     /\ ~UsernameHeld(arrival[r], body[r].username))
    ~> (/\ AnsweredWith(r, resSuccess(Projection(body[r])))
        /\ Cardinality(RowsHolding(users \ arrival[r], body[r])) = 1)

\* C3: a Create request with an absent or empty field is answered with
\* ValidationError (400) and leaves the table unchanged, with no row that has
\* an empty required field.
C3_InvalidCreateRejected ==
  \A r \in Req :
    (IsCreate(r) /\ ~AllFieldsTruthy(body[r]) /\ Settled(r)) =>
      /\ AnsweredWith(r, ErrorResponse(400, "ValidationError"))
      /\ users = arrival[r]
      /\ \A x \in users, f \in Fields : Truthy(x[f]) /\ x[f] # Null

\* C4: a Create request with five non-empty fields whose email some row holds
\* is answered with EmailAlreadyInUse (409), whatever its username, and leaves
\* the table unchanged.
C4_EmailConflict ==
  \A r \in Req :
    (/\ IsCreate(r) /\ AllFieldsTruthy(body[r]) /\ Settled(r)
     /\ EmailHeld(arrival[r], body[r].email)) =>
      /\ AnsweredWith(r, ErrorResponse(409, "EmailAlreadyInUse"))
      /\ users = arrival[r]

\* C5: a Create request with five non-empty fields whose username some row
\* holds and whose email no row holds is answered with UsernameAlreadyTaken
\* (409) and leaves the table unchanged.
C5_UsernameConflict ==
  \A r \in Req :
    (/\ IsCreate(r) /\ AllFieldsTruthy(body[r]) /\ Settled(r)
     /\ UsernameHeld(arrival[r], body[r].username)
     /\ ~EmailHeld(arrival[r], body[r].email)) =>
      /\ AnsweredWith(r, ErrorResponse(409, "UsernameAlreadyTaken"))
      /\ users = arrival[r]

\* C6: an Update request whose id matches no row, with a valid body of five
\* non-empty fields, is answered with UserNotFound (404) and leaves every row
\* unchanged.
C6_UpdateUnknownId ==
  \A r \in Req :
    (/\ IsUpdate(r) /\ AllFieldsTruthy(body[r]) /\ Settled(r)
     /\ ~EmailHeld(arrival[r], body[r].email)
     /\ ~UsernameHeld(arrival[r], body[r].username)
     /\ \A x \in arrival[r] : x.id # userId[r]) =>
      /\ AnsweredWith(r, ErrorResponse(404, "UserNotFound"))
      /\ users = arrival[r]

\* The error kind a failure is reported as, and its status in the error table.
KindOf(err) == IF err.class = "ApiError" THEN err.message ELSE "ServerError"
StatusOf(kind) ==
  CASE kind = "ValidationError" -> 400
    [] kind \in {"UsernameAlreadyTaken", "EmailAlreadyInUse"} -> 409
    [] kind = "UserNotFound" -> 404
    [] OTHER -> 500

\* C7: every request that fails eventually has exactly one response, the
\* error object of its error kind with the status of the error table.
C7_FailedRequestAnsweredOnce ==
  \A r \in Req :
    (promise[r].state = "rejected")
    ~> AnsweredWith(r, ErrorResponse(StatusOf(KindOf(promise[r].reason)),
                                     KindOf(promise[r].reason)))

\* C8: an Update request whose id matches a row and whose five non-empty
\* fields use an email and a username no other row holds succeeds: that row's
\* five fields are replaced, its id and all other rows are unchanged, and the
\* response is the projection without password.
C8_UpdateSucceeds ==
  \A r \in Req :
    (/\ IsUpdate(r) /\ AllFieldsTruthy(body[r]) /\ Settled(r)
     /\ \E x \in arrival[r] : x.id = userId[r]
     /\ \A x \in arrival[r] :
          x.id # userId[r] => x.email # body[r].email /\ x.username # body[r].username) =>
      /\ AnsweredWith(r, resSuccess(Projection(body[r])))
      /\ users = {x \in arrival[r] : x.id # userId[r]} \cup {ValuesOf(userId[r], body[r])}

\* C9: Lookup leaves the table unchanged and is answered from the table:
\* ValidationError (400) for an absent or empty email, UserNotFound (404) when
\* no row has the email, otherwise success with the row that has it.
C9_Lookup ==
  \A r \in Req :
    (IsLookup(r) /\ Settled(r)) =>
      /\ users = arrival[r]
      /\ IF ~Truthy(query[r])
           THEN AnsweredWith(r, ErrorResponse(400, "ValidationError"))
         ELSE IF ~EmailHeld(users, query[r])
           THEN AnsweredWith(r, ErrorResponse(404, "UserNotFound"))
         ELSE \E x \in users : x.email = query[r] /\ AnsweredWith(r, resSuccess(x))

\* C10: of two Create requests with the same email that have both passed the
\* uniqueness check, at most one inserts a row and is answered with success;
\* the other is answered with ServerError (500), and no second row is stored.
C10_ConcurrentCreates ==
  \A r1, r2 \in Req :
    (/\ r1 # r2 /\ IsCreate(r1) /\ IsCreate(r2)
     /\ body[r1].email = body[r2].email
     /\ promise[r1] = Fulfilled /\ promise[r2] = Fulfilled) =>
      /\ \E loser \in {r1, r2} : AnsweredWith(loser, ErrorResponse(500, "ServerError"))
      /\ ~(/\ AnsweredWith(r1, resSuccess(Projection(body[r1])))
           /\ AnsweredWith(r2, resSuccess(Projection(body[r2]))))
      /\ Cardinality({x \in users : x.email = body[r1].email}) <= 1

====
